---- MODULE Spec2Model ----
(***************************************************************************)
(* A model of src/main.py, the Streamlit script "MBTI Top10 by Country".   *)
(*                                                                         *)
(* One run of the script (a render cycle) is the pipeline                  *)
(*   load_df -> detect_columns -> coerce_numeric -> selectbox -> row lookup*)
(*   -> to_percent -> sort_values/head -> table -> chart.                  *)
(* Each stage is one action; pc is the position of the script.             *)
(*                                                                         *)
(* Column names are sequences of one-character strings, so that upper(),   *)
(* lower(), strip() and the substring test are computed, not assumed.      *)
(* Numbers are fixed-point: the integer v stands for v/100, so 0.95 is 95  *)
(* and the factor 100.0 of to_percent multiplies v by 100.  Rounding of    *)
(* binary floating point is outside the model.                             *)
(***************************************************************************)
EXTENDS Integers, Sequences, FiniteSets, TLC

VARIABLES
    fileState,      \* the default file countriesMBTI_16types.csv: "absent" or its content
    cache,          \* st.cache_data of load_df: key -> cached Dataset (or NoEntry)
    loads,          \* history: one record per call of load_df in this process
    cycle,          \* number of render cycles started
    uploaded,       \* what the uploader holds in this cycle: "None" or a content
    pc,             \* position of the script in the current render cycle
    df,             \* the loaded Dataset
    country_col,    \* detect_columns()[0]
    mbti_cols,      \* detect_columns()[1]
    df_num,         \* _df: the coerced copy
    countries,      \* the labels offered by the selectbox
    country,        \* the selected label
    series,         \* row[mbti_cols].iloc[0]
    series_percent, \* to_percent(series)
    rank_df,        \* the ranked table
    reported,       \* errors and warnings reported in this cycle
    shown,          \* outputs produced in this cycle
    trace           \* history: the stages that ran in this cycle, in order

vars == <<fileState, cache, loads, cycle, uploaded, pc, df, country_col, mbti_cols,
          df_num, countries, country, series, series_percent, rank_df, reported,
          shown, trace>>

(***************************************************************************)
(* Bounds of the model.                                                    *)
(***************************************************************************)
MaxCycles == 3
MaxCols == 3
MaxLen == 3
MaxTail == 2

(***************************************************************************)
(* Strings.                                                                *)
(***************************************************************************)
Lowercase == <<"a","b","c","d","e","f","g","h","i","j","k","l","m",
               "n","o","p","q","r","s","t","u","v","w","x","y","z">>
Uppercase == <<"A","B","C","D","E","F","G","H","I","J","K","L","M",
               "N","O","P","Q","R","S","T","U","V","W","X","Y","Z">>
Whitespace == {" ", "\t", "\n", "\r"}

Range(s) == {s[i] : i \in 1..Len(s)}
SetMin(S) == CHOOSE x \in S : \A y \in S : x <= y
SetMax(S) == CHOOSE x \in S : \A y \in S : x >= y

MapChar(c, from, to) ==
    IF \E i \in 1..Len(from) : from[i] = c
    THEN to[CHOOSE i \in 1..Len(from) : from[i] = c]
    ELSE c

upper(s) == [i \in 1..Len(s) |-> MapChar(s[i], Lowercase, Uppercase)]
lower(s) == [i \in 1..Len(s) |-> MapChar(s[i], Uppercase, Lowercase)]

strip(s) ==
    LET keep == {i \in 1..Len(s) : s[i] \notin Whitespace}
    IN  IF keep = {} THEN <<>> ELSE SubSeq(s, SetMin(keep), SetMax(keep))

\* Python's  t in s  for strings
contains(s, t) ==
    \E i \in 1..(Len(s) - Len(t) + 1) : SubSeq(s, i, i + Len(t) - 1) = t

(***************************************************************************)
(* detect_columns                                                          *)
(***************************************************************************)
KNOWN_TYPES == <<
    <<"I","N","T","J">>, <<"I","N","T","P">>, <<"E","N","T","J">>, <<"E","N","T","P">>,
    <<"I","N","F","J">>, <<"I","N","F","P">>, <<"E","N","F","J">>, <<"E","N","F","P">>,
    <<"I","S","T","J">>, <<"I","S","F","J">>, <<"E","S","T","J">>, <<"E","S","F","J">>,
    <<"I","S","T","P">>, <<"I","S","F","P">>, <<"E","S","T","P">>, <<"E","S","F","P">> >>

\* the two Hangul names are written by the code points of their syllables
COUNTRY_NAMES == {
    <<"c","o","u","n","t","r","y">>, <<"n","a","t","i","o","n">>,
    <<"l","o","c","a","t","i","o","n">>, <<"U+C9C0","U+C5ED">>, <<"U+AD6D","U+AC00">> }

lower_cols(c) == strip(lower(c))
up_cols(c) == strip(upper(c))

exact_match(c) == up_cols(c) \in Range(KNOWN_TYPES)
substring_match(c) == \E t \in Range(KNOWN_TYPES) : contains(up_cols(c), t)

detect_country(cols) ==
    LET country_candidates == SelectSeq(cols, LAMBDA c : lower_cols(c) \in COUNTRY_NAMES)
    IN  IF country_candidates # <<>> THEN country_candidates[1] ELSE cols[1]

\* the loop "seen = set(); ordered = []": first occurrences, in order
ordered_unique(cs) ==
    SelectSeq([i \in 1..Len(cs) |-> <<i, cs[i]>>],
              LAMBDA p : \A j \in 1..(p[1] - 1) : cs[j] # p[2])

\* detect_mbti with the two passes collapsed into one: exact or substring
detect_mbti_both_passes(cols) ==
    SelectSeq(cols, LAMBDA c : exact_match(c) \/ substring_match(c))

detect_mbti(cols) ==
    LET exact == SelectSeq(cols, exact_match)
        found == IF exact # <<>> THEN exact ELSE SelectSeq(cols, substring_match)
        uniq  == ordered_unique(found)
    IN  [i \in 1..Len(uniq) |-> uniq[i][2]]

(***************************************************************************)
(* Cells.  A cell of a Dataset is a number, a missing value (NaN) or a     *)
(* text that is no numeral.                                                *)
(***************************************************************************)
Num(v) == [kind |-> "num", num |-> v, str |-> ""]
NaN == [kind |-> "nan", num |-> 0, str |-> ""]
Str(t) == [kind |-> "str", num |-> 0, str |-> t]

isna(x) == x.kind = "nan"

\* pd.to_numeric(..., errors="coerce") on one cell
to_numeric(x) == IF x.kind = "num" THEN x ELSE NaN

Digits == <<"0","1","2","3","4","5","6","7","8","9">>

RECURSIVE int_str(_)
int_str(n) == IF n < 10 THEN Digits[n + 1] ELSE int_str(n \div 10) \o Digits[(n % 10) + 1]

\* str() of the float v/100, for the two-decimal values of the model
float_str(v) ==
    LET a == IF v < 0 THEN -v ELSE v
        frac == a % 100
        tail == IF frac % 10 = 0 THEN Digits[(frac \div 10) + 1]
                ELSE Digits[(frac \div 10) + 1] \o Digits[(frac % 10) + 1]
    IN  (IF v < 0 THEN "-" ELSE "") \o int_str(a \div 100) \o "." \o tail

\* Series.astype(str) on one cell: a missing value becomes the text "nan"
astype_str(x) ==
    CASE x.kind = "str" -> x.str
      [] x.kind = "nan" -> "nan"
      [] x.kind = "num" -> float_str(x.num)

\* Series.fillna("(Unknown)") on one value of a text series
fillna_unknown(x) == IF x.kind = "nan" THEN "(Unknown)" ELSE x.str

(***************************************************************************)
(* Datasets: [cols |-> column names, rows |-> rows of cells].              *)
(***************************************************************************)
col_index(t, c) == CHOOSE i \in 1..Len(t.cols) : t.cols[i] = c

\* coerce_numeric(df, cols)
coerce_numeric(t, cols) ==
    [cols |-> t.cols,
     rows |-> [r \in 1..Len(t.rows) |->
                 [i \in 1..Len(t.cols) |->
                     IF t.cols[i] \in Range(cols) THEN to_numeric(t.rows[r][i])
                     ELSE t.rows[r][i]]]]

\* _df[country_col].astype(str).fillna("(Unknown)").tolist()
country_labels(t, ccol) ==
    [r \in 1..Len(t.rows) |->
        fillna_unknown(Str(astype_str(t.rows[r][col_index(t, ccol)])))]

\* _df[_df[country_col].astype(str) == country] with the last match taken
matching_row_last(t, ccol, label) ==
    LET hits == {r \in 1..Len(t.rows) :
                    astype_str(t.rows[r][col_index(t, ccol)]) = label}
    IN  IF hits = {} THEN 0 ELSE SetMax(hits)

\* _df[_df[country_col].astype(str) == country]: 0 when the frame is empty,
\* else the position of .iloc[0]
matching_row(t, ccol, label) ==
    LET hits == {r \in 1..Len(t.rows) :
                    astype_str(t.rows[r][col_index(t, ccol)]) = label}
    IN  IF hits = {} THEN 0 ELSE SetMin(hits)

\* row[mbti_cols].iloc[0]
row_series(t, r, cols) == [i \in 1..Len(cols) |-> t.rows[r][col_index(t, cols[i])]]

(***************************************************************************)
(* to_percent                                                              *)
(***************************************************************************)
LowSum == 95
HighSum == 105
Hundred == 100

RECURSIVE seq_sum(_)
seq_sum(s) == IF s = <<>> THEN 0 ELSE Head(s).num + seq_sum(Tail(s))

dropna(s) == SelectSeq(s, LAMBDA x : ~isna(x))

times(s, k) == [i \in 1..Len(s) |-> IF isna(s[i]) THEN NaN ELSE Num(s[i].num * k)]

\* to_percent with the interval taken open
to_percent_open(s) ==
    LET s_clean == dropna(s)
        ssum == seq_sum(s_clean)
    IN  IF s_clean = <<>> THEN s
        ELSE IF LowSum < ssum /\ ssum < HighSum THEN times(s, Hundred)
        ELSE s

to_percent(s) ==
    LET s_clean == dropna(s)
        ssum == seq_sum(s_clean)
    IN  IF s_clean = <<>> THEN s
        ELSE IF LowSum <= ssum /\ ssum <= HighSum THEN times(s, Hundred)
        ELSE s

(***************************************************************************)
(* sort_values(ascending=False).head(10) and rank_df                       *)
(*                                                                         *)
(* sort_values is called with its default kind, "quicksort", which is not  *)
(* a stable sort: the order of equal values is whatever the sort of the    *)
(* build produces, so every order of equal values is an outcome.  Missing  *)
(* values are placed last (na_position="last"), in index order.            *)
(***************************************************************************)
TopN == 10

RECURSIVE sorted_orders(_, _)
sorted_orders(s, left) ==
    IF left = {} THEN {<<>>}
    ELSE LET top == {i \in left : \A j \in left : s[i].num >= s[j].num}
         IN  UNION {{<<i>> \o o : o \in sorted_orders(s, left \ {i})} : i \in top}

RECURSIVE in_order(_)
in_order(S) == IF S = {} THEN <<>> ELSE <<SetMin(S)>> \o in_order(S \ {SetMin(S)})

\* the index orders of sort_values() without ascending=False
sort_values_asc(s) ==
    LET good == {i \in 1..Len(s) : ~isna(s[i])}
        bad  == {i \in 1..Len(s) : isna(s[i])}
    IN  {[k \in 1..Len(o) |-> o[Len(o) + 1 - k]] \o in_order(bad) :
            o \in sorted_orders(s, good)}

\* the index orders sort_values(ascending=False) can return
sort_values_desc(s) ==
    LET good == {i \in 1..Len(s) : ~isna(s[i])}
        bad  == {i \in 1..Len(s) : isna(s[i])}
    IN  {o \o in_order(bad) : o \in sorted_orders(s, good)}

head(o, n) == SubSeq(o, 1, IF Len(o) < n THEN Len(o) ELSE n)

\* reset_index/rename, the Rank column, and the column order of rank_df
make_rank_df(s, cols, o) ==
    [k \in 1..Len(o) |-> [Rank |-> k, MBTI |-> cols[o[k]], Percent |-> s[o[k]]]]

(***************************************************************************)
(* The inputs: what may be uploaded, what the default file may hold, and   *)
(* the Dataset pd.read_csv makes of each.                                  *)
(***************************************************************************)
nCountry == <<"C","o","u","n","t","r","y">>
nNation  == <<" ","n","a","t","i","o","n"," ">>
nName    == <<"N","a","m","e">>
nValue   == <<"V","a","l","u","e">>
nINTJ    == <<"I","N","T","J">>
nIntjLow == <<"i","n","t","j">>
nIntjPad == <<" ","I","n","t","j"," ">>
nINTJ1   == <<"I","N","T","J",".","1">>
nInfpLow == <<"i","n","f","p">>
nESTP    == <<"E","S","T","P">>
nENFPpct == <<"T","y","p","e","_","E","N","F","P","_","p","c","t">>
nEntpX   == <<"e","n","t","p","_","x">>
nTwo     == <<"e","n","f","p","_","I","N","T","J">>

NoTable == [cols |-> <<>>, rows |-> <<>>]

Uploads == {"upA", "upEmpty", "upBad"}
FileContents == {"fileV1", "fileV2"}

\* uploaded_bytes.decode("utf-8") succeeds
decodable(content) == content # "upBad"

\* pd.read_csv of a content
read_csv(content) ==
    CASE content = "upA" ->
           [cols |-> <<nCountry, nINTJ, nInfpLow, nESTP>>,
            rows |-> << <<Str("KR"), Num(45), Num(50), NaN>>,
                        <<Str("KR"), Num(5000), Num(5000), Num(0)>>,
                        <<NaN, Num(60), Str("x"), Num(40)>> >>]
      [] content = "upEmpty" ->
           [cols |-> <<nCountry, nINTJ>>, rows |-> <<>>]
      [] content = "fileV1" ->
           [cols |-> <<nENFPpct, nEntpX>>,
            rows |-> << <<Num(9500), Num(500)>>,
                        <<Str("x"), Num(100)>>,
                        <<NaN, Num(95)>> >>]
      [] content = "fileV2" ->
           [cols |-> <<nName, nValue>>,
            rows |-> << <<Str("a"), Num(100)>> >>]
      [] OTHER -> NoTable

(***************************************************************************)
(* load_df and its cache                                                   *)
(***************************************************************************)
Loaded(t) == [ok |-> TRUE, ds |-> t, err |-> ""]
Raised(e) == [ok |-> FALSE, ds |-> NoTable, err |-> e]

\* the body of load_df with the default file tried before the upload
load_df_file_first(uploaded_bytes, file) ==
    IF file # "absent" THEN Loaded(read_csv(file))
    ELSE IF uploaded_bytes # "None"
    THEN IF decodable(uploaded_bytes) THEN Loaded(read_csv(uploaded_bytes))
         ELSE Raised("UnicodeDecodeError")
    ELSE Raised("FileNotFoundError")

\* the body of load_df
load_df(uploaded_bytes, file) ==
    IF uploaded_bytes # "None"
    THEN IF decodable(uploaded_bytes) THEN Loaded(read_csv(uploaded_bytes))
         ELSE Raised("UnicodeDecodeError")
    ELSE IF file # "absent" THEN Loaded(read_csv(file))
    ELSE Raised("FileNotFoundError")

\* a cache key that does not look at the argument
cache_key_constant(uploaded_bytes) == "None"

\* st.cache_data hashes the argument: the bytes by content, None as itself
cache_key(uploaded_bytes) == uploaded_bytes

\* the call load_df(...) through st.cache_data: [hit, result]
cached_load_df(uploaded_bytes, file, c) ==
    LET key == cache_key(uploaded_bytes)
    IN  IF key \in DOMAIN c
        THEN [hit |-> TRUE, key |-> key, result |-> Loaded(c[key])]
        ELSE [hit |-> FALSE, key |-> key, result |-> load_df(uploaded_bytes, file)]

(***************************************************************************)
(* The render cycle.                                                       *)
(***************************************************************************)
NoCache == [k \in {} |-> NoTable]

FreshCycle ==
    /\ df = NoTable /\ country_col = <<>> /\ mbti_cols = <<>> /\ df_num = NoTable
    /\ countries = <<>> /\ country = <<>> /\ series = <<>> /\ series_percent = <<>>
    /\ rank_df = <<>> /\ reported = {} /\ shown = {} /\ trace = <<>>

Init ==
    /\ fileState \in {"absent"} \cup FileContents
    /\ cache = NoCache /\ loads = <<>> /\ cycle = 0
    /\ uploaded = "None" /\ pc = "idle"
    /\ FreshCycle

\* a user interaction reruns the script from the top (lines 8-85); since the last
\* run the default file may have been written, replaced or removed
StartCycle ==
    /\ pc \in {"idle", "done", "stopped"}
    /\ cycle < MaxCycles
    /\ cycle' = cycle + 1
    /\ fileState' \in {"absent"} \cup FileContents
    /\ \E up \in {"None"} \cup Uploads : uploaded' = up
    /\ pc' = "load"
    /\ df' = NoTable /\ country_col' = <<>> /\ mbti_cols' = <<>> /\ df_num' = NoTable
    /\ countries' = <<>> /\ country' = <<>> /\ series' = <<>> /\ series_percent' = <<>>
    /\ rank_df' = <<>> /\ reported' = {} /\ shown' = {} /\ trace' = <<>>
    /\ UNCHANGED <<cache, loads>>

\* st.error(...) / st.warning(...) followed by st.stop(), falling through instead
ReportNoStop(stage, what, next) ==
    /\ reported' = reported \cup {what}
    /\ trace' = Append(trace, stage)
    /\ pc' = next

\* st.error(...) / st.warning(...) followed by st.stop()
Report(stage, what, next) ==
    /\ reported' = reported \cup {what}
    /\ trace' = Append(trace, stage)
    /\ pc' = "stopped"

Continue(stage, next) ==
    /\ trace' = Append(trace, stage)
    /\ pc' = next
    /\ UNCHANGED reported

\* lines 88-92
Load ==
    /\ pc = "load"
    /\ LET call == cached_load_df(uploaded, fileState, cache)
           r == call.result
       IN  /\ loads' = Append(loads, [up |-> uploaded, file |-> fileState,
                                      hit |-> call.hit, ok |-> r.ok, ds |-> r.ds,
                                      err |-> r.err])
           /\ cache' = IF ~call.hit /\ r.ok
                       THEN [k \in DOMAIN cache \cup {call.key} |->
                                IF k = call.key THEN r.ds ELSE cache[k]]
                       ELSE cache
           /\ df' = r.ds
           /\ IF r.ok THEN Continue("load", "detect") ELSE Report("load", r.err, "detect")
    /\ UNCHANGED <<fileState, cycle, uploaded, country_col, mbti_cols, df_num, countries,
                   country, series, series_percent, rank_df, shown>>

\* lines 94-97
Detect ==
    /\ pc = "detect"
    /\ country_col' = detect_country(df.cols)
    /\ mbti_cols' = detect_mbti(df.cols)
    /\ IF mbti_cols' = <<>> THEN Report("detect", "NoTypeColumnsFound", "coerce")
       ELSE Continue("detect", "coerce")
    /\ UNCHANGED <<fileState, cache, loads, cycle, uploaded, df, df_num, countries,
                   country, series, series_percent, rank_df, shown>>

\* line 100
Coerce ==
    /\ pc = "coerce"
    /\ df_num' = coerce_numeric(df, mbti_cols)
    /\ Continue("coerce", "select")
    /\ UNCHANGED <<fileState, cache, loads, cycle, uploaded, df, country_col, mbti_cols,
                   countries, country, series, series_percent, rank_df, shown>>

\* lines 103-104: the selectbox returns one of its options, None when it has none;
\* sorted() fixes the order the options are offered in, not which may be chosen
Select ==
    /\ pc = "select"
    /\ countries' = country_labels(df_num, country_col)
    /\ IF countries' = <<>> THEN country' = <<>>
       ELSE \E l \in Range(countries') : country' = <<l>>
    /\ Continue("select", "lookup")
    /\ UNCHANGED <<fileState, cache, loads, cycle, uploaded, df, country_col, mbti_cols,
                   df_num, series, series_percent, rank_df, shown>>

\* lines 107-112
Lookup ==
    /\ pc = "lookup"
    /\ LET r == IF country = <<>> THEN 0
                ELSE matching_row(df_num, country_col, country[1])
       IN  IF r = 0
           THEN /\ Report("lookup", "RowNotFound", "normalize")
                /\ UNCHANGED series
           ELSE /\ series' = row_series(df_num, r, mbti_cols)
                /\ Continue("lookup", "normalize")
    /\ UNCHANGED <<fileState, cache, loads, cycle, uploaded, df, country_col, mbti_cols,
                   df_num, countries, country, series_percent, rank_df, shown>>

\* line 113
Normalize ==
    /\ pc = "normalize"
    /\ series_percent' = to_percent(series)
    /\ Continue("normalize", "rank")
    /\ UNCHANGED <<fileState, cache, loads, cycle, uploaded, df, country_col, mbti_cols,
                   df_num, countries, country, series, rank_df, shown>>

\* lines 116-121
Rank ==
    /\ pc = "rank"
    /\ \E o \in sort_values_desc(series_percent) :
          rank_df' = make_rank_df(series_percent, mbti_cols, head(o, TopN))
    /\ Continue("rank", "table")
    /\ UNCHANGED <<fileState, cache, loads, cycle, uploaded, df, country_col, mbti_cols,
                   df_num, countries, country, series, series_percent, shown>>

\* lines 124-125
ShowTable ==
    /\ pc = "table"
    /\ shown' = shown \cup {"table"}
    /\ Continue("table", "chart")
    /\ UNCHANGED <<fileState, cache, loads, cycle, uploaded, df, country_col, mbti_cols,
                   df_num, countries, country, series, series_percent, rank_df>>

\* lines 128-144
ShowChart ==
    /\ pc = "chart"
    /\ shown' = shown \cup {"chart"}
    /\ Continue("chart", "done")
    /\ UNCHANGED <<fileState, cache, loads, cycle, uploaded, df, country_col, mbti_cols,
                   df_num, countries, country, series, series_percent, rank_df>>

Next ==
    \/ StartCycle
    \/ Load
    \/ Detect
    \/ Coerce
    \/ Select
    \/ Lookup
    \/ Normalize
    \/ Rank
    \/ ShowTable
    \/ ShowChart

Spec == Init /\ [][Next]_vars

(***************************************************************************)
(* detect_columns on bounded tables: every list of up to MaxCols distinct  *)
(* column names of NamePool (pd.read_csv makes the names of a table        *)
(* distinct).                                                              *)
(***************************************************************************)
NamePool == {nCountry, nNation, nName, nINTJ, nIntjLow, nIntjPad, nINTJ1,
             nENFPpct, nEntpX, nTwo, nESTP}

ColumnLists ==
    UNION {{c \in [1..n -> NamePool] : \A i, j \in 1..n : i # j => c[i] # c[j]} :
           n \in 1..MaxCols}

InitDetect ==
    /\ fileState = "absent" /\ cache = NoCache /\ loads = <<>> /\ cycle = 1
    /\ uploaded = "upA" /\ pc = "detect"
    /\ df \in {[cols |-> c, rows |-> <<>>] : c \in ColumnLists}
    /\ country_col = <<>> /\ mbti_cols = <<>> /\ df_num = NoTable
    /\ countries = <<>> /\ country = <<>> /\ series = <<>> /\ series_percent = <<>>
    /\ rank_df = <<>> /\ reported = {} /\ shown = {} /\ trace = <<"load">>

SpecDetect == InitDetect /\ [][Detect]_vars

(***************************************************************************)
(* to_percent and the ranking on bounded rows.                             *)
(***************************************************************************)
PercentValues == {-5, 0, 45, 50, 55, 100, 5000}
PercentCells == {NaN} \cup {Num(v) : v \in PercentValues}

\* every row of 1..MaxLen cells
ShortRows == UNION {[1..n -> PercentCells] : n \in 1..MaxLen}

\* rows around the cut after rank 10: distinct values in scrambled order,
\* cells of `miss` missing, and cell b repeating the value of cell a
LongValue(i) == 200 + 10 * ((i * 7) % 13)

LongRow(n, miss, a, b) ==
    [i \in 1..n |-> IF i \in miss THEN NaN
                    ELSE IF i = b THEN Num(LongValue(a)) ELSE Num(LongValue(i))]

LongRows ==
    {LongRow(n, miss, a, b) :
        n \in (TopN - 1)..(TopN + MaxTail), miss \in SUBSET {2, 5},
        a \in 1..(TopN + MaxTail), b \in 1..(TopN + MaxTail)}

InitRow(rows, at) ==
    /\ fileState = "absent" /\ cache = NoCache /\ loads = <<>> /\ cycle = 1
    /\ uploaded = "upA" /\ pc = at
    /\ df = NoTable /\ country_col = nCountry /\ df_num = NoTable
    /\ countries = <<>> /\ country = <<>>
    /\ series \in rows
    /\ mbti_cols = SubSeq(KNOWN_TYPES, 1, Len(series))
    /\ series_percent = <<>>
    /\ rank_df = <<>> /\ reported = {} /\ shown = {}
    /\ trace = <<"load", "detect", "coerce", "select", "lookup">>

InitPercent == InitRow(ShortRows, "normalize")
SpecPercent == InitPercent /\ [][Normalize]_vars

InitRank == InitRow(ShortRows \cup LongRows, "normalize")
NextRank ==
    \/ Normalize
    \/ Rank
SpecRank == InitRank /\ [][NextRank]_vars

(***************************************************************************)
(* Properties.                                                             *)
(***************************************************************************)
Ran(stage) == stage \in Range(trace)

NonMissing(s) == {i \in 1..Len(s) : ~isna(s[i])}

RECURSIVE SumOver(_, _)
SumOver(s, S) ==
    IF S = {} THEN 0
    ELSE LET i == CHOOSE i \in S : TRUE IN s[i].num + SumOver(s, S \ {i})

Smaller(a, b) == IF a < b THEN a ELSE b

\* the position of a column in the detected MBTI column list
ColPos(c) == CHOOSE i \in 1..Len(mbti_cols) : mbti_cols[i] = c

\* C1: the ranked table has exactly min(10, n) entries, n the number of
\* non-missing values of the row, and no entry of it is missing.
C1_ExactlyNonMissing ==
    Ran("rank") =>
        /\ Len(rank_df) = Smaller(10, Cardinality(NonMissing(series_percent)))
        /\ \A k \in 1..Len(rank_df) : ~isna(rank_df[k].Percent)

\* C2: to_percent returns 100 times each value (missing stays missing) when the
\* sum of the non-missing values is in [0.95, 1.05], bounds included, and the
\* input unchanged in every other case (also when every value is missing).
C2_ToPercent ==
    Ran("normalize") =>
        LET good == NonMissing(series)
            total == SumOver(series, good)
        IN  IF good # {} /\ 95 <= total /\ total <= 105
            THEN /\ Len(series_percent) = Len(series)
                 /\ \A i \in 1..Len(series) :
                       IF isna(series[i]) THEN isna(series_percent[i])
                       ELSE series_percent[i] = Num(100 * series[i].num)
            ELSE series_percent = series

\* a row with a missing value whose other values sum to exactly 0.95 was scaled
C2_Witness ==
    /\ Ran("normalize")
    /\ SumOver(series, NonMissing(series)) = 95
    /\ \E i \in 1..Len(series) : isna(series[i])
    /\ series_percent # series

\* C3: if some column matches a type code exactly, the MBTI list holds exactly
\* the exact-matching columns (none that only contains a code); otherwise it
\* holds exactly the columns whose name contains a code.
C3_ExactBeforeSubstring ==
    Ran("detect") =>
        LET all == Range(df.cols)
            E == {c \in all : exact_match(c)}
            S == {c \in all : substring_match(c)}
        IN  IF E # {} THEN Range(mbti_cols) = E ELSE Range(mbti_cols) = S

\* a table with an exact match and a column that only contains a code
C3_Witness ==
    /\ Ran("detect")
    /\ \E c \in Range(df.cols) : exact_match(c)
    /\ \E c \in Range(df.cols) : substring_match(c) /\ ~exact_match(c)
    /\ mbti_cols # <<>>

\* C4 as stated: every call of load_df returns the parse of the upload when one
\* is supplied, returns the parse of the default file only when none is
\* supplied and the file exists, and raises FileNotFoundError exactly when no
\* upload is supplied and the default file does not exist.
C4_Original ==
    \A i \in 1..Len(loads) :
        LET L == loads[i]
        IN  /\ (L.up # "None" /\ L.ok) => L.ds = read_csv(L.up)
            /\ (L.up = "None" /\ L.ok) => (L.file # "absent" /\ L.ds = read_csv(L.file))
            /\ (L.err = "FileNotFoundError") <=> (L.up = "None" /\ L.file = "absent")

\* an earlier call with the same argument succeeded, so its Dataset is cached
CachedBefore(i) == \E j \in 1..(i - 1) : loads[j].up = loads[i].up /\ loads[j].ok

\* C4 (amended): load_df uses the upload whenever one is supplied; with no
\* upload and no Dataset cached for the no-upload call it uses the default
\* file when it exists and raises FileNotFoundError when it does not; it
\* raises FileNotFoundError in no other case: with no upload and a Dataset
\* cached for the no-upload call it returns a Dataset, file or no file.
C4_Amended ==
    \A i \in 1..Len(loads) :
        LET L == loads[i]
        IN  /\ L.up # "None" =>
                  IF decodable(L.up) THEN L.ok /\ L.ds = read_csv(L.up)
                  ELSE ~L.ok /\ L.err = "UnicodeDecodeError"
            /\ (L.up = "None" /\ ~CachedBefore(i)) =>
                  IF L.file # "absent" THEN L.ok /\ L.ds = read_csv(L.file)
                  ELSE ~L.ok /\ L.err = "FileNotFoundError"
            /\ (L.up = "None" /\ CachedBefore(i)) => L.ok
            /\ (L.err = "FileNotFoundError") <=>
                  (L.up = "None" /\ L.file = "absent" /\ ~CachedBefore(i))

\* an upload was loaded while the default file existed, and a call with no
\* upload and no file returned a Dataset
C4_Witness ==
    /\ \E i \in 1..Len(loads) :
          loads[i].up = "upA" /\ loads[i].file # "absent" /\ loads[i].ok
    /\ \E i \in 1..Len(loads) :
          loads[i].up = "None" /\ loads[i].file = "absent" /\ loads[i].ok

Stages == <<"load", "detect", "coerce", "select", "lookup", "normalize", "rank",
            "table", "chart">>

\* C5: once FileNotFoundError, NoTypeColumnsFound or RowNotFound is reported the
\* cycle halts: the stage that reported it is the last that ran and neither
\* table nor chart is produced; a table or chart is produced only after load,
\* detection, coercion and row lookup succeeded, in that order.
C5_HaltOnError ==
    /\ Len(trace) <= Len(Stages) /\ trace = SubSeq(Stages, 1, Len(trace))
    /\ reported # {} => (pc = "stopped" /\ shown = {})
    /\ "FileNotFoundError" \in reported => trace = SubSeq(Stages, 1, 1)
    /\ "NoTypeColumnsFound" \in reported => trace = SubSeq(Stages, 1, 2)
    /\ "RowNotFound" \in reported => trace = SubSeq(Stages, 1, 5)
    /\ shown # {} =>
          /\ reported = {}
          /\ SubSeq(trace, 1, 5) = SubSeq(Stages, 1, 5)
          /\ Ran("rank")
          /\ ("chart" \in shown => "table" \in shown)

\* the row lookup reported RowNotFound and the cycle stopped there
C5_Witness ==
    /\ reported = {"RowNotFound"}
    /\ pc = "stopped"
    /\ trace = SubSeq(Stages, 1, 5)

\* the order of two cells: numbers by value, a missing value after every number
NotBefore(x, y) == isna(y) \/ (~isna(x) /\ x.num >= y.num)

C7_FirstMatchingRow ==
    (Ran("lookup") /\ Len(df_num.rows) >= 1 /\ country # <<>>
        /\ country[1] \in Range(countries)) =>
        /\ "RowNotFound" \notin reported
        /\ \E r \in 1..Len(df_num.rows) :
              /\ countries[r] = country[1]
              /\ \A q \in 1..(r - 1) : countries[q] # country[1]
              /\ series = [i \in 1..Len(mbti_cols) |->
                             df_num.rows[r][col_index(df_num, mbti_cols[i])]]

\* the label of a missing country cell was selected, two rows carry it, and the
\* values of the first of them were taken
C7_Witness ==
    /\ Ran("lookup")
    /\ country = <<"nan">>
    /\ Cardinality({r \in 1..Len(countries) : countries[r] = "nan"}) = 2
    /\ series = <<NaN, Num(100)>>

\* C8: equal values are listed in the order of their columns in the MBTI
\* list, and at the cut after rank 10 the earlier column is the one kept.
C8_StableTies ==
    Ran("rank") =>
        /\ \A k, l \in 1..Len(rank_df) :
              (k < l /\ rank_df[k].Percent = rank_df[l].Percent) =>
                  ColPos(rank_df[k].MBTI) < ColPos(rank_df[l].MBTI)
        /\ \A k \in 1..Len(rank_df) : \A i \in 1..Len(series_percent) :
              (series_percent[i] = rank_df[k].Percent
                  /\ \A m \in 1..Len(rank_df) : rank_df[m].MBTI # mbti_cols[i]) =>
                  ColPos(rank_df[k].MBTI) < i

\* the type codes a listed column stands for
CodesOf(c) ==
    IF exact_match(c) THEN {up_cols(c)}
    ELSE {t \in Range(KNOWN_TYPES) : contains(up_cols(c), t)}

\* C9: the MBTI list has at most 16 entries, no column twice, the columns in
\* table order, each standing for a type code and no two for the same code.
C9_OneColumnPerCode ==
    Ran("detect") =>
        /\ Len(mbti_cols) <= 16
        /\ \A i, j \in 1..Len(mbti_cols) : i # j => mbti_cols[i] # mbti_cols[j]
        /\ \A i, j \in 1..Len(mbti_cols) :
              i < j => col_index(df, mbti_cols[i]) < col_index(df, mbti_cols[j])
        /\ \A i \in 1..Len(mbti_cols) : CodesOf(mbti_cols[i]) # {}
        /\ \A i, j \in 1..Len(mbti_cols) :
              i # j => CodesOf(mbti_cols[i]) \cap CodesOf(mbti_cols[j]) = {}

\* C10: after a successful load for a key every later load with that key
\* returns the Dataset of the first one without parsing again, whatever has
\* become of the default file; a Dataset comes from the cache only for the
\* content it was cached for.
C10_CacheByContent ==
    /\ \A i, j \in 1..Len(loads) :
          (i < j /\ loads[i].up = loads[j].up /\ loads[i].ok) =>
              /\ loads[j].ok
              /\ loads[j].hit
              /\ loads[j].ds = loads[i].ds
    /\ \A j \in 1..Len(loads) :
          /\ loads[j].hit => CachedBefore(j)
          /\ (loads[j].ok /\ loads[j].up # "None") => loads[j].ds = read_csv(loads[j].up)

\* the default file was loaded, then removed, and the next load with no upload
\* returned the cached Dataset
C10_Witness ==
    \E i, j \in 1..Len(loads) :
        /\ i < j
        /\ loads[i].up = "None" /\ loads[i].file = "fileV1" /\ ~loads[i].hit
        /\ loads[j].up = "None" /\ loads[j].file = "absent" /\ loads[j].hit
        /\ loads[j].ds = read_csv("fileV1")

====
